---- MODULE Spec2Model ----
(***************************************************************************)
(* A model of the Black-Scholes dashboard (OPBSX): the three button        *)
(* handlers of ui/app.py (Calculate, Generate Heatmap, History), the       *)
(* MySQL store behind utils/db.py and core/db_setup.py, the sweep of       *)
(* core/plotting.py and the reconstruction of core/history.py.             *)
(*                                                                         *)
(* Numbers.  A text typed into an entry is modelled by the number it       *)
(* parses to, in hundredths (<<20>> is the text "0.20", <<>> the empty     *)
(* text).  A float is an integer count of 1/(1000*Den) where Den is the    *)
(* least common multiple of the possible n-1, so that 0.8*x, 0.5*x and     *)
(* every point of numpy.linspace are exact.  Rounding of IEEE doubles is   *)
(* not modelled.  A price is kept as the term of its five arguments.       *)
(***************************************************************************)
EXTENDS Integers, Sequences, FiniteSets, TLC

\* Largest resolution the Generate Heatmap inputs are drawn from.
MaxRes == 3
\* Largest calc_id the store hands out in a run.
MaxCalcId == 2
\* Largest number of sweeps stored in heatmap_data in a run.
MaxSweeps == 2

\* self.last_calc_id = None; also the None a function returns.
None == 0

-----------------------------------------------------------------------------
(* Arithmetic on the fixed-point representation of floats.                 *)

RECURSIVE Gcd(_, _)
Gcd(a, b) == IF b = 0 THEN a ELSE Gcd(b, a % b)

RECURSIVE LcmUpTo(_)
LcmUpTo(k) == IF k <= 1 THEN 1 ELSE LET l == LcmUpTo(k - 1) IN (l * k) \div Gcd(l, k)

Den == LcmUpTo(MaxRes - 1)

\* float(s) of a text holding v hundredths.
ToFloat(v) == v * 10 * Den

\* x * (p / 10) for the literals 0.8, 1.2, 0.5, 1.5 of the default ranges.
Tenths(x, p) == (x \div 10) * p

Max2(a, b) == IF a >= b THEN a ELSE b

\* Mutant: min(0.5, x) typed for min(5.0, x).
Min2_Typo(a, b) == IF a \div 10 <= b THEN a \div 10 ELSE b

Min2(a, b) == IF a <= b THEN a ELSE b

-----------------------------------------------------------------------------
(* Entry texts.                                                            *)

EmptyText == << >>
\* A text float() rejects.
BadText == <<0, 0>>
Txt(v) == <<v>>
\* A text with three decimals, holding v thousandths.
TxtMilli(v) == <<v, 1>>

\* Mutant: _read_float that returns 0.0 for an empty optional text.
_read_float_NoDefault(s, required, default) ==
    IF s = EmptyText
    THEN IF required THEN [ok |-> FALSE, val |-> 0, err |-> "required"]
         ELSE [ok |-> TRUE, val |-> 0, err |-> ""]
    ELSE IF Len(s) = 1
         THEN [ok |-> TRUE, val |-> ToFloat(s[1]), err |-> ""]
         ELSE IF s[2] = 1
              THEN [ok |-> TRUE, val |-> s[1] * Den, err |-> ""]
              ELSE [ok |-> FALSE, val |-> 0, err |-> "invalid"]

\* _read_float: the value, or the ValueError raised.
_read_float(s, required, default) ==
    IF s = EmptyText
    THEN IF required THEN [ok |-> FALSE, val |-> 0, err |-> "required"]
         ELSE [ok |-> TRUE, val |-> default, err |-> ""]
    ELSE IF Len(s) = 1
         THEN [ok |-> TRUE, val |-> ToFloat(s[1]), err |-> ""]
         ELSE IF s[2] = 1
              THEN [ok |-> TRUE, val |-> s[1] * Den, err |-> ""]
              ELSE [ok |-> FALSE, val |-> 0, err |-> "invalid"]

\* The ValueError of the first read that raises, reads being in program order.
FirstError(reads) ==
    reads[CHOOSE k \in 1..Len(reads) : ~reads[k].ok /\ \A m \in 1..(k - 1) : reads[m].ok].err

-----------------------------------------------------------------------------
(* BlackScholes.run.  A finite price is the term of its arguments; NaN is  *)
(* numpy's nan; a ZeroDivisionError is raised by S / K on Python floats.   *)

NaN == [f |-> "nan", S |-> 0, K |-> 0, T |-> 0, sigma |-> 0, r |-> 0]
Zero == [f |-> "zero", S |-> 0, K |-> 0, T |-> 0, sigma |-> 0, r |-> 0]
Term(f, T, K, S, sigma, r) == [f |-> f, S |-> S, K |-> K, T |-> T, sigma |-> sigma, r |-> r]

\* log(S / K) + (r + 0.5 * sigma ** 2) * T is zero: decided where the model's
\* arithmetic can decide it (T = 0, or r = 0 and sigma = 0).
NumeratorZero(T, K, S, sigma, r) ==
    /\ S = K
    /\ \/ T = 0
       \/ (r = 0 /\ sigma = 0)

\* d1 is nan: the log of a negative S / K, the sqrt of a negative T, or 0 / 0.
D1IsNaN(T, K, S, sigma, r) ==
    \/ (S < 0 /\ K > 0) \/ (S > 0 /\ K < 0)
    \/ T < 0
    \/ (S # 0 /\ (T = 0 \/ sigma = 0) /\ NumeratorZero(T, K, S, sigma, r))

\* call_delta - 1 on floats.
MinusOne(x) == IF x = NaN THEN NaN ELSE [x EXCEPT !.f = "cdf_d1_minus_1"]

\* The results of run(): the two prices, and the greeks of lines 50-52.
\* call_delta = norm.cdf(d1) is the term "cdf_d1", a float of [0, 1], unless
\* d1 is nan; gamma = norm.pdf(d1) / (S * sigma * sqrt(T)) is nan also for a
\* zero denominator (pdf of an infinite d1 is 0).
BSRun(T, K, S, sigma, r) ==
    IF K = 0
    THEN [raised |-> TRUE, call_price |-> NaN, put_price |-> NaN,
          call_delta |-> NaN, put_delta |-> NaN, call_gamma |-> NaN, put_gamma |-> NaN]
    ELSE IF D1IsNaN(T, K, S, sigma, r)
         THEN [raised |-> FALSE, call_price |-> NaN, put_price |-> NaN,
               call_delta |-> NaN, put_delta |-> NaN, call_gamma |-> NaN, put_gamma |-> NaN]
         ELSE LET call_delta == Term("cdf_d1", T, K, S, sigma, r)
                  gamma == IF S = 0 \/ T = 0 \/ sigma = 0 THEN NaN
                           ELSE Term("gamma", T, K, S, sigma, r)
              IN [raised |-> FALSE,
                  call_price |-> Term("call", T, K, S, sigma, r),
                  put_price |-> Term("put", T, K, S, sigma, r),
                  call_delta |-> call_delta, put_delta |-> MinusOne(call_delta),
                  call_gamma |-> gamma, put_gamma |-> gamma]

-----------------------------------------------------------------------------
(* The program's state.                                                    *)

VARIABLES
    last_calc_id,     \* BSApp.last_calc_id
    connected,        \* DBHandler.connection is a live connection
    next_calc_id,     \* AUTO_INCREMENT counter of option_pricing.calc_id
    option_pricing,   \* the rows of option_pricing, in calc_id order
    heatmap_data,     \* the rows of heatmap_data, in heatmap_id order
    figure,           \* what the shared matplotlib figure shows
    returned_ids,     \* the calc_ids insert_input_record has returned so far
    batches,          \* the number of batches committed to heatmap_data so far
    last              \* the last handler run: its inputs, dialogs and results

vars == <<last_calc_id, connected, next_calc_id, option_pricing, heatmap_data,
          figure, returned_ids, batches, last>>

\* The store as one value, for the operators below.
Store == [option_pricing |-> option_pricing, heatmap_data |-> heatmap_data,
          next_calc_id |-> next_calc_id, connected |-> connected]

CalcIds(db) == {db.option_pricing[k].calc_id : k \in 1..Len(db.option_pricing)}

\* The rows of heatmap_data with this calc_id, in heatmap_id order.
RECURSIVE SelectRows(_, _)
SelectRows(rows, c) ==
    IF rows = << >> THEN << >>
    ELSE IF Head(rows).calc_id = c
         THEN <<Head(rows)>> \o SelectRows(Tail(rows), c)
         ELSE SelectRows(Tail(rows), c)

RECURSIVE RemoveRows(_, _)
RemoveRows(rows, c) ==
    IF rows = << >> THEN << >>
    ELSE IF Head(rows).calc_id = c
         THEN RemoveRows(Tail(rows), c)
         ELSE <<Head(rows)>> \o RemoveRows(Tail(rows), c)

-----------------------------------------------------------------------------
(* The MySQL server running one statement, under the schema of             *)
(* create_table_if_not_exists.  A statement is atomic (InnoDB): it changes *)
(* the tables or it fails and changes nothing.                             *)

\* Mutant: calc_id taken as the number of rows plus one, not AUTO_INCREMENT.
InsertInput_CountRows(db, params) ==
    LET id == Len(db.option_pricing) + 1
        row == [calc_id |-> id,
                current_price |-> params[1], strike_price |-> params[2],
                time_to_maturity |-> params[3], volatility |-> params[4],
                risk_free_interest_rate |-> params[5]]
    IN [ok |-> TRUE, lastrowid |-> id,
        db |-> [db EXCEPT !.option_pricing = Append(@, row), !.next_calc_id = id + 1]]

\* INSERT INTO option_pricing (...) VALUES (%s, %s, %s, %s, %s): the row gets
\* the next AUTO_INCREMENT calc_id.
InsertInput(db, params) ==
    LET id == db.next_calc_id
        row == [calc_id |-> id,
                current_price |-> params[1], strike_price |-> params[2],
                time_to_maturity |-> params[3], volatility |-> params[4],
                risk_free_interest_rate |-> params[5]]
    IN [ok |-> TRUE, lastrowid |-> id,
        db |-> [db EXCEPT !.option_pricing = Append(@, row), !.next_calc_id = id + 1]]

\* A row heatmap_data accepts: calc_id references option_pricing (FOREIGN KEY)
\* and no column is NULL (a nan parameter is sent as NULL; DOUBLE NOT NULL).
RowAccepted(db, p) ==
    /\ p.calc_id \in CalcIds(db)
    /\ p.call_price # NaN
    /\ p.put_price # NaN

\* cursor.executemany of INSERT INTO heatmap_data ... VALUES: the connector
\* sends the batch as one multi-row INSERT.
InsertHeatmap(db, params) ==
    IF \A k \in 1..Len(params) : RowAccepted(db, params[k])
    THEN [ok |-> TRUE, lastrowid |-> None,
          db |-> [db EXCEPT !.heatmap_data = @ \o params]]
    ELSE [ok |-> FALSE, lastrowid |-> None, db |-> db]

\* Mutant: the DELETE under a foreign key without ON DELETE CASCADE checks.
DeleteCascade_ParentOnly(db, c) ==
    [db EXCEPT !.option_pricing = SelectSeq(@, LAMBDA r : r.calc_id # c)]

\* DELETE FROM option_pricing WHERE calc_id = c, with ON DELETE CASCADE.
DeleteCascade(db, c) ==
    [db EXCEPT !.option_pricing = SelectSeq(@, LAMBDA r : r.calc_id # c),
               !.heatmap_data = RemoveRows(@, c)]

Faults == {"none", "connect", "statement", "commit"}

\* Mutant: execute on an autocommit connection that sends a batch row by
\* row; a connection lost before the end leaves the rows sent so far stored.
ExecuteWrite_RowByRow(db, many, params, fault) ==
    IF fault = "connect"
    THEN [raised |-> TRUE, lastrowid |-> None, sent |-> 0, reconnected |-> FALSE,
          db |-> [db EXCEPT !.connected = FALSE]]
    ELSE IF fault = "statement"
    THEN [raised |-> TRUE, lastrowid |-> None, sent |-> 1, reconnected |-> ~db.connected,
          db |-> [db EXCEPT !.connected = FALSE]]
    ELSE LET live == [db EXCEPT !.connected = TRUE]
             s == IF many THEN InsertHeatmap(live, params) ELSE InsertInput(live, params)
             out == [raised |-> TRUE, lastrowid |-> None, sent |-> 1,
                     reconnected |-> ~db.connected, db |-> s.db]
         IN IF ~s.ok
            THEN out
            ELSE IF fault = "commit"
                 THEN [out EXCEPT !.db = IF many
                                         THEN [db EXCEPT !.heatmap_data = Append(@, params[1]),
                                                         !.connected = FALSE]
                                         ELSE [db EXCEPT !.next_calc_id = s.db.next_calc_id,
                                                         !.connected = FALSE]]
                 ELSE [out EXCEPT !.raised = FALSE, !.lastrowid = s.lastrowid]

\* Mutant: execute that, when the commit fails, reconnects and runs the
\* statement a second time.
ExecuteWrite_RetryOnce(db, many, params, fault) ==
    IF fault = "connect"
    THEN [raised |-> TRUE, lastrowid |-> None, sent |-> 0, reconnected |-> FALSE,
          db |-> [db EXCEPT !.connected = FALSE]]
    ELSE IF fault = "statement"
    THEN [raised |-> TRUE, lastrowid |-> None, sent |-> 1, reconnected |-> ~db.connected,
          db |-> [db EXCEPT !.connected = FALSE]]
    ELSE LET live == [db EXCEPT !.connected = TRUE]
             s == IF many THEN InsertHeatmap(live, params) ELSE InsertInput(live, params)
             again == IF many THEN InsertHeatmap(live, params)
                      ELSE InsertInput([live EXCEPT !.next_calc_id = s.db.next_calc_id], params)
             out == [raised |-> TRUE, lastrowid |-> None, sent |-> 1,
                     reconnected |-> ~db.connected, db |-> s.db]
         IN IF ~s.ok
            THEN out
            ELSE IF fault = "commit"
                 THEN [out EXCEPT !.raised = FALSE, !.lastrowid = again.lastrowid,
                                  !.sent = 2, !.reconnected = TRUE, !.db = again.db]
                 ELSE [out EXCEPT !.raised = FALSE, !.lastrowid = s.lastrowid]

\* DBHandler.execute of a write (fetch = False).  fault is what the transport
\* does during the call: "connect" - the connection is down and connect() gives
\* up; "statement" - the connection is lost before the statement runs;
\* "commit" - it is lost before the commit, and the server rolls back.
\* sent counts the calls of cursor.execute / cursor.executemany; reconnected
\* tells that ensure_connection had to call connect() first.
ExecuteWrite(db, many, params, fault) ==
    IF fault = "connect"
    THEN [raised |-> TRUE, lastrowid |-> None, sent |-> 0, reconnected |-> FALSE,
          db |-> [db EXCEPT !.connected = FALSE]]
    ELSE IF fault = "statement"
    THEN [raised |-> TRUE, lastrowid |-> None, sent |-> 1, reconnected |-> ~db.connected,
          db |-> [db EXCEPT !.connected = FALSE]]
    ELSE LET live == [db EXCEPT !.connected = TRUE]
             s == IF many THEN InsertHeatmap(live, params) ELSE InsertInput(live, params)
             out == [raised |-> TRUE, lastrowid |-> None, sent |-> 1,
                     reconnected |-> ~db.connected, db |-> s.db]
         IN IF ~s.ok
            THEN out
            ELSE IF fault = "commit"
                 THEN [out EXCEPT !.db = [db EXCEPT !.next_calc_id = s.db.next_calc_id,
                                                    !.connected = FALSE]]
                 ELSE [out EXCEPT !.raised = FALSE, !.lastrowid = s.lastrowid]

\* DBHandler.execute of a SELECT (fetch = True): no commit.
ExecuteFetch(db, rows, fault) ==
    IF fault = "connect" \/ fault = "statement"
    THEN [raised |-> TRUE, rows |-> << >>, db |-> [db EXCEPT !.connected = FALSE]]
    ELSE [raised |-> FALSE, rows |-> rows, db |-> [db EXCEPT !.connected = TRUE]]

\* insert_input_record: the calc_id, or None after the Database Error dialog.
insert_input_record(db, params, fault) ==
    LET e == ExecuteWrite(db, FALSE, params, fault)
    IN [calc_id |-> IF e.raised THEN None ELSE e.lastrowid,
        raised |-> FALSE, db_error |-> e.raised, sent |-> e.sent,
        reconnected |-> e.reconnected, db |-> e.db]

\* insert_heatmap_records: returns None either way; an Error ends in the
\* Database Error dialog.
insert_heatmap_records(db, calc_id, heatmap, fault) ==
    LET params == [k \in 1..Len(heatmap) |->
                      [calc_id |-> calc_id, spot |-> heatmap[k].spot,
                       volatility |-> heatmap[k].volatility,
                       call_price |-> heatmap[k].call_price,
                       put_price |-> heatmap[k].put_price]]
        e == ExecuteWrite(db, TRUE, params, fault)
    IN [raised |-> FALSE, db_error |-> e.raised, sent |-> e.sent,
        reconnected |-> e.reconnected, db |-> e.db]

-----------------------------------------------------------------------------
(* core/plotting.py: the sweep.                                            *)

\* Mutant: numpy.linspace(start, stop, n, endpoint=False).
linspace_NoEndpoint(start, stop, n) ==
    LET step == (stop - start) \div n
    IN [i \in 1..n |-> start + (i - 1) * step]

\* numpy.linspace(start, stop, n), n >= 2: step = (stop - start) / (n - 1),
\* the points start + i * step, and the last point set to stop.
linspace(start, stop, n) ==
    LET step == (stop - start) \div (n - 1)
    IN [i \in 1..n |-> IF i = n THEN stop ELSE start + (i - 1) * step]

\* numpy.zeros((n, n))
Zeros(n) == [i \in 1..n |-> [j \in 1..n |-> Zero]]

NoSurface == [spot_range |-> << >>, vol_range |-> << >>,
              call_prices |-> << >>, put_prices |-> << >>, save_records |-> << >>]

\* Mutant: the cell's prices placed at [j, i], spot as the row.
SweepCell_Transposed(env, i, j, acc) ==
    LET spot == env.spot_range[j]
        vol == env.vol_range[i]
        bs == BSRun(env.ttm, env.strike, spot, vol, env.rate)
    IN IF bs.raised
       THEN [acc EXCEPT !.raised = TRUE, !.runs = @ + 1]
       ELSE [acc EXCEPT !.runs = @ + 1,
                        !.call_prices[j][i] = bs.call_price,
                        !.put_prices[j][i] = bs.put_price,
                        !.save_records = Append(@, [spot |-> spot, volatility |-> vol,
                                                    call_price |-> bs.call_price,
                                                    put_price |-> bs.put_price])]

\* One pass of the body of the inner loop: price the cell [i, j], place the
\* prices, append the record.
SweepCell(env, i, j, acc) ==
    LET spot == env.spot_range[j]
        vol == env.vol_range[i]
        bs == BSRun(env.ttm, env.strike, spot, vol, env.rate)
    IN IF bs.raised
       THEN [acc EXCEPT !.raised = TRUE, !.runs = @ + 1]
       ELSE [acc EXCEPT !.runs = @ + 1,
                        !.call_prices[i][j] = bs.call_price,
                        !.put_prices[i][j] = bs.put_price,
                        !.save_records = Append(@, [spot |-> spot, volatility |-> vol,
                                                    call_price |-> bs.call_price,
                                                    put_price |-> bs.put_price])]

\* for j, spot in enumerate(spot_range), from column j on.
RECURSIVE InnerLoop(_, _, _, _)
InnerLoop(env, i, j, acc) ==
    IF j > env.n \/ acc.raised THEN acc
    ELSE InnerLoop(env, i, j + 1, SweepCell(env, i, j, acc))

\* for i, vol in enumerate(vol_range), from row i on.
RECURSIVE OuterLoop(_, _, _)
OuterLoop(env, i, acc) ==
    IF i > env.n \/ acc.raised THEN acc
    ELSE OuterLoop(env, i + 1, InnerLoop(env, i, 1, acc))

\* Lines 93-121: the axes, the matrices and the records of one sweep.
Sweep(n, spot_min, spot_max, vol_min, vol_max, strike, ttm, rate) ==
    LET env == [n |-> n, spot_range |-> linspace(spot_min, spot_max, n),
                vol_range |-> linspace(vol_min, vol_max, n),
                strike |-> strike, ttm |-> ttm, rate |-> rate]
        acc == OuterLoop(env, 1, [raised |-> FALSE, runs |-> 0,
                                  call_prices |-> Zeros(n), put_prices |-> Zeros(n),
                                  save_records |-> << >>])
    IN [raised |-> acc.raised, runs |-> acc.runs,
        surface |-> [spot_range |-> env.spot_range, vol_range |-> env.vol_range,
                     call_prices |-> acc.call_prices, put_prices |-> acc.put_prices,
                     save_records |-> acc.save_records]]

\* Mutant: RangeError without the comparison of Max Spot with Min Spot.
RangeError_NoSpotOrder(n, spot_min, spot_max, vol_min, vol_max) ==
    IF n < 2 THEN "Resolution must be at least 2"
    ELSE IF spot_min <= 0 \/ spot_max <= 0 THEN "Spot ranges must be > 0"
    ELSE IF vol_min <= 0 \/ vol_max <= 0 THEN "Vol ranges must be > 0"
    ELSE IF vol_max <= vol_min THEN "Max Vol must be greater than Min Vol"
    ELSE ""

\* The checks of lines 65-89 on the resolution and the four bounds: the
\* ValueError raised, or "" when they pass.
RangeError(n, spot_min, spot_max, vol_min, vol_max) ==
    IF n < 2 THEN "Resolution must be at least 2"
    ELSE IF spot_min <= 0 \/ spot_max <= 0 THEN "Spot ranges must be > 0"
    ELSE IF spot_max <= spot_min THEN "Max Spot must be greater than Min Spot"
    ELSE IF vol_min <= 0 \/ vol_max <= 0 THEN "Vol ranges must be > 0"
    ELSE IF vol_max <= vol_min THEN "Max Vol must be greater than Min Vol"
    ELSE ""

Placeholder == [kind |-> "placeholder", calc_id |-> None, spots |-> << >>,
                vols |-> << >>, call_prices |-> << >>, put_prices |-> << >>]

\* What a handler run leaves for the claims to look at.
NoArgs == [n |-> 0, spot |-> 0, vol |-> 0, strike |-> 0, ttm |-> 0, rate |-> 0,
           spot_min |-> 0, spot_max |-> 0, vol_min |-> 0, vol_max |-> 0]

\* op, form: the handler and the entry texts it read.  parsed, args: whether
\* every read returned, and the floats read (the bounds after the defaults).
\* outcome: the dialog the run ended with ("ok" is its success showinfo,
\* "error" the showerror of its except branch).  db_error: a Database Error
\* dialog was shown.  runs: calls of BlackScholes.run.  store_calls: calls of
\* insert_input_record / insert_heatmap_records / SELECTs.  stored: rows the
\* run added to the store.  sent, reconnected: as DBHandler.execute gave them
\* for the run's write.  calc_id: what insert_input_record returned.
\* ret: what the handler returned.  displayed, call_price, put_price: the
\* price labels were set, and to what.  call_delta, put_delta, call_gamma,
\* put_gamma: the greeks of the run of Calculate.  surface: the sweep's arrays.
\* What a handler run saw of DBHandler.connect: no call.
NoConnect == [raised |-> FALSE, live |-> FALSE, attempts |-> 0, temp_connections |-> 0]

NoRun == [op |-> "init", form |-> << >>, parsed |-> FALSE, args |-> NoArgs,
          outcome |-> "none", error |-> "",
          db_error |-> FALSE, runs |-> 0, store_calls |-> 0, stored |-> 0,
          sent |-> 0, reconnected |-> FALSE,
          calc_id |-> None, ret |-> None, displayed |-> FALSE,
          call_price |-> NaN, put_price |-> NaN,
          call_delta |-> NaN, put_delta |-> NaN, call_gamma |-> NaN, put_gamma |-> NaN,
          surface |-> NoSurface, connect |-> NoConnect]

\* Mutant: plot_heatmaps without the check of calc_id.
NoCalcId_Unchecked(calc_id) == FALSE

\* if calc_id is None (lines 58-60).
NoCalcId(calc_id) == calc_id = None

\* plot_heatmaps.  fig is the figure before the call.
plot_heatmaps(db, calc_id, form, fig, fault) ==
    LET run == [NoRun EXCEPT !.op = "generate", !.form = form,
                             !.args.n = form.resolution]
        fail(msg) == [run |-> [run EXCEPT !.outcome = "error", !.error = msg],
                      db |-> db, figure |-> fig]
        n == form.resolution
        base_spot == _read_float(form.current_price, TRUE, 0)
        base_vol == _read_float(form.vol, TRUE, 0)
        strike == _read_float(form.strike, TRUE, 0)
        ttm == _read_float(form.ttm, TRUE, 0)
        rate == _read_float(form.rate, TRUE, 0)
        spot_min == _read_float(form.spot_min, FALSE, Tenths(base_spot.val, 8))
        spot_max == _read_float(form.spot_max, FALSE, Tenths(base_spot.val, 12))
        vol_min == _read_float(form.vol_min, FALSE, Max2(ToFloat(1), Tenths(base_vol.val, 5)))
        vol_max == _read_float(form.vol_max, FALSE, Min2(ToFloat(500), Tenths(base_vol.val, 15)))
        reads == <<base_spot, base_vol, strike, ttm, rate, spot_min, spot_max, vol_min, vol_max>>
        read == [run EXCEPT !.parsed = TRUE,
                            !.args = [n |-> n, spot |-> base_spot.val, vol |-> base_vol.val,
                                      strike |-> strike.val, ttm |-> ttm.val, rate |-> rate.val,
                                      spot_min |-> spot_min.val, spot_max |-> spot_max.val,
                                      vol_min |-> vol_min.val, vol_max |-> vol_max.val]]
    IN IF NoCalcId(calc_id)
       THEN [run |-> [run EXCEPT !.outcome = "warning", !.error = "No Calculation ID"],
             db |-> db, figure |-> fig]
       ELSE IF n < 2
            THEN fail(RangeError(n, 0, 0, 0, 0))
       ELSE IF \E k \in 1..Len(reads) : ~reads[k].ok
            THEN fail(FirstError(reads))
       ELSE IF RangeError(n, spot_min.val, spot_max.val, vol_min.val, vol_max.val) # ""
            THEN [run |-> [read EXCEPT !.outcome = "error",
                                       !.error = RangeError(n, spot_min.val, spot_max.val,
                                                            vol_min.val, vol_max.val)],
                  db |-> db, figure |-> fig]
       ELSE LET sw == Sweep(n, spot_min.val, spot_max.val, vol_min.val, vol_max.val,
                            strike.val, ttm.val, rate.val)
                ran == [read EXCEPT !.runs = sw.runs, !.surface = sw.surface]
            IN IF sw.raised
               THEN [run |-> [ran EXCEPT !.outcome = "error", !.error = "ZeroDivisionError"],
                     db |-> db, figure |-> fig]
               ELSE LET ins == insert_heatmap_records(db, calc_id, sw.surface.save_records, fault)
                    IN [run |-> [ran EXCEPT !.outcome = "ok", !.store_calls = 1,
                                            !.db_error = ins.db_error,
                                            !.sent = ins.sent,
                                            !.reconnected = ins.reconnected,
                                            !.stored = Len(ins.db.heatmap_data) - Len(db.heatmap_data)],
                        db |-> ins.db,
                        figure |-> [kind |-> "generated", calc_id |-> None,
                                    spots |-> sw.surface.spot_range,
                                    vols |-> sw.surface.vol_range,
                                    call_prices |-> sw.surface.call_prices,
                                    put_prices |-> sw.surface.put_prices]]

-----------------------------------------------------------------------------
(* core/calculations.py: the Calculate handler.                            *)

\* calculate_option_prices: run.ret is the value returned (None by falling
\* out of the except branch).
calculate_option_prices(db, form, fault) ==
    LET run == [NoRun EXCEPT !.op = "calculate", !.form = form]
        fail(msg) == [run |-> [run EXCEPT !.outcome = "error", !.error = msg], db |-> db]
        current_price == _read_float(form.current_price, TRUE, 0)
        strike == _read_float(form.strike, TRUE, 0)
        ttm == _read_float(form.ttm, TRUE, 0)
        vol == _read_float(form.vol, TRUE, 0)
        rate == _read_float(form.rate, TRUE, 0)
        reads == <<current_price, strike, ttm, vol, rate>>
        read == [run EXCEPT !.parsed = TRUE,
                            !.args = [NoArgs EXCEPT !.spot = current_price.val,
                                                    !.vol = vol.val, !.strike = strike.val,
                                                    !.ttm = ttm.val, !.rate = rate.val]]
        invalid(msg) == [run |-> [read EXCEPT !.outcome = "error", !.error = msg], db |-> db]
    IN IF \E k \in 1..Len(reads) : ~reads[k].ok
       THEN fail(FirstError(reads))
       ELSE IF ttm.val <= 0 THEN invalid("Time to maturity must be > 0")
       ELSE IF vol.val <= 0 THEN invalid("Volatility must be > 0")
       ELSE LET ins == insert_input_record(db,
                           <<current_price.val, strike.val, ttm.val, vol.val, rate.val>>, fault)
                bs == BSRun(ttm.val, strike.val, current_price.val, vol.val, rate.val)
                ran == [read EXCEPT !.store_calls = 1, !.db_error = ins.db_error,
                                   !.sent = ins.sent, !.reconnected = ins.reconnected,
                                   !.stored = Len(ins.db.option_pricing) - Len(db.option_pricing),
                                   !.calc_id = ins.calc_id, !.runs = 1]
            IN IF bs.raised
               THEN [run |-> [ran EXCEPT !.outcome = "error", !.error = "ZeroDivisionError"],
                     db |-> ins.db]
               ELSE [run |-> [ran EXCEPT !.outcome = "ok", !.ret = ins.calc_id,
                                         !.displayed = TRUE,
                                         !.call_price = bs.call_price,
                                         !.put_price = bs.put_price,
                                         !.call_delta = bs.call_delta,
                                         !.put_delta = bs.put_delta,
                                         !.call_gamma = bs.call_gamma,
                                         !.put_gamma = bs.put_gamma],
                     db |-> ins.db]

-----------------------------------------------------------------------------
(* core/history.py: the history window.                                    *)

\* sorted(set(...)) of a set of numbers.
RECURSIVE Sorted(_)
Sorted(S) ==
    IF S = {} THEN << >>
    ELSE LET m == CHOOSE x \in S : \A y \in S : x <= y
         IN <<m>> \o Sorted(S \ {m})

\* spot_to_idx[s]: the position of s on its axis.
IndexOf(axis, v) == CHOOSE k \in 1..Len(axis) : axis[k] = v

\* for r in rows, from row k on: place the row's prices at [vol index, spot index].
RECURSIVE FillLoop(_, _, _)
FillLoop(rows, k, acc) ==
    IF k > Len(rows) THEN acc
    ELSE LET i == IndexOf(acc.vols, rows[k].volatility)
             j == IndexOf(acc.spots, rows[k].spot)
         IN FillLoop(rows, k + 1,
                     [acc EXCEPT !.call_prices[i][j] = rows[k].call_price,
                                 !.put_prices[i][j] = rows[k].put_price])

\* Mutant: the matrices start as numpy.zeros instead of numpy.full(nan).
Reconstruct_ZeroFill(rows) ==
    LET spots == Sorted({rows[k].spot : k \in 1..Len(rows)})
        vols == Sorted({rows[k].volatility : k \in 1..Len(rows)})
        full == [i \in 1..Len(vols) |-> [j \in 1..Len(spots) |-> Zero]]
    IN FillLoop(rows, 1, [spots |-> spots, vols |-> vols,
                          call_prices |-> full, put_prices |-> full])

\* Lines 54-70: the axes and the two matrices rebuilt from fetched rows.
Reconstruct(rows) ==
    LET spots == Sorted({rows[k].spot : k \in 1..Len(rows)})
        vols == Sorted({rows[k].volatility : k \in 1..Len(rows)})
        full == [i \in 1..Len(vols) |-> [j \in 1..Len(spots) |-> NaN]]
    IN FillLoop(rows, 1, [spots |-> spots, vols |-> vols,
                          call_prices |-> full, put_prices |-> full])

\* Mutant: _on_history_load that deletes a calculation it finds without
\* heatmap rows.
on_history_load_PurgeEmpty(db, sel, fig, fault) ==
    LET run == [NoRun EXCEPT !.op = "history_load", !.form = <<sel>>]
    IN IF sel = None
       THEN [run |-> [run EXCEPT !.outcome = "info", !.error = "Select"],
             db |-> db, figure |-> fig]
       ELSE LET q == ExecuteFetch(db, SelectRows(db.heatmap_data, sel), fault)
                ran == [run EXCEPT !.store_calls = 1]
            IN IF q.raised
               THEN [run |-> [ran EXCEPT !.outcome = "error", !.error = "Load error"],
                     db |-> q.db, figure |-> fig]
               ELSE IF q.rows = << >>
               THEN [run |-> [ran EXCEPT !.outcome = "info", !.error = "No data"],
                     db |-> DeleteCascade(q.db, sel), figure |-> fig]
               ELSE LET rec == Reconstruct(q.rows)
                    IN [run |-> [ran EXCEPT !.outcome = "ok"],
                        db |-> q.db,
                        figure |-> [kind |-> "loaded", calc_id |-> sel,
                                    spots |-> rec.spots, vols |-> rec.vols,
                                    call_prices |-> rec.call_prices,
                                    put_prices |-> rec.put_prices]]

\* Mutant: _on_history_load without the check of "if not rows": the figure is
\* cleared and spots[0] then raises into the Load error dialog.
on_history_load_NoEmptyCheck(db, sel, fig, fault) ==
    LET run == [NoRun EXCEPT !.op = "history_load", !.form = <<sel>>]
    IN IF sel = None
       THEN [run |-> [run EXCEPT !.outcome = "info", !.error = "Select"],
             db |-> db, figure |-> fig]
       ELSE LET q == ExecuteFetch(db, SelectRows(db.heatmap_data, sel), fault)
                ran == [run EXCEPT !.store_calls = 1]
            IN IF q.raised
               THEN [run |-> [ran EXCEPT !.outcome = "error", !.error = "Load error"],
                     db |-> q.db, figure |-> fig]
               ELSE IF q.rows = << >>
               THEN [run |-> [ran EXCEPT !.outcome = "error", !.error = "Load error"],
                     db |-> q.db, figure |-> [Placeholder EXCEPT !.kind = "cleared"]]
               ELSE LET rec == Reconstruct(q.rows)
                    IN [run |-> [ran EXCEPT !.outcome = "ok"],
                        db |-> q.db,
                        figure |-> [kind |-> "loaded", calc_id |-> sel,
                                    spots |-> rec.spots, vols |-> rec.vols,
                                    call_prices |-> rec.call_prices,
                                    put_prices |-> rec.put_prices]]

\* _on_history_load with the row sel selected in the tree (None: no selection).
on_history_load(db, sel, fig, fault) ==
    LET run == [NoRun EXCEPT !.op = "history_load", !.form = <<sel>>]
    IN IF sel = None
       THEN [run |-> [run EXCEPT !.outcome = "info", !.error = "Select"],
             db |-> db, figure |-> fig]
       ELSE LET q == ExecuteFetch(db, SelectRows(db.heatmap_data, sel), fault)
                ran == [run EXCEPT !.store_calls = 1]
            IN IF q.raised
               THEN [run |-> [ran EXCEPT !.outcome = "error", !.error = "Load error"],
                     db |-> q.db, figure |-> fig]
               ELSE IF q.rows = << >>
               THEN [run |-> [ran EXCEPT !.outcome = "info", !.error = "No data"],
                     db |-> q.db, figure |-> fig]
               ELSE LET rec == Reconstruct(q.rows)
                    IN [run |-> [ran EXCEPT !.outcome = "ok"],
                        db |-> q.db,
                        figure |-> [kind |-> "loaded", calc_id |-> sel,
                                    spots |-> rec.spots, vols |-> rec.vols,
                                    call_prices |-> rec.call_prices,
                                    put_prices |-> rec.put_prices]]

\* open_history_window: the SELECT over option_pricing that fills the tree.
open_history_window(db, fault) ==
    LET run == [NoRun EXCEPT !.op = "history_open", !.store_calls = 1]
        q == ExecuteFetch(db, db.option_pricing, fault)
    IN IF q.raised
       THEN [run |-> [run EXCEPT !.outcome = "error", !.error = "History error"], db |-> q.db]
       ELSE [run |-> [run EXCEPT !.outcome = "ok", !.form = q.rows], db |-> q.db]

-----------------------------------------------------------------------------
(* The inputs the handlers are run on.  The entries are editable at any    *)
(* time, so each handler run draws the texts it reads.                     *)

BaseForm == [current_price |-> Txt(100), strike |-> Txt(100), ttm |-> Txt(100),
             vol |-> Txt(20), rate |-> Txt(5)]

BaseHeatForm == [current_price |-> Txt(100), strike |-> Txt(100), ttm |-> Txt(100),
                 vol |-> Txt(20), rate |-> Txt(5),
                 spot_min |-> EmptyText, spot_max |-> EmptyText,
                 vol_min |-> EmptyText, vol_max |-> EmptyText, resolution |-> 2]

\* Spec: the store under faults, deletions and the history window.
CalcForms ==
    {BaseForm, [BaseForm EXCEPT !.ttm = Txt(0)]}

HeatForms ==
    {BaseHeatForm, [BaseHeatForm EXCEPT !.spot_min = Txt(90)]}

\* SpecInputs: the handlers over valid and invalid entries.
InputCalcForms ==
    {BaseForm}
    \cup {[BaseForm EXCEPT !.current_price = t] : t \in {Txt(0)}}
    \cup {[BaseForm EXCEPT !.strike = t] : t \in {Txt(0), Txt(-100)}}
    \cup {[BaseForm EXCEPT !.ttm = t] : t \in {Txt(0), Txt(-100)}}
    \cup {[BaseForm EXCEPT !.vol = t] : t \in {Txt(0), Txt(-20)}}
    \cup {[BaseForm EXCEPT !.rate = t] : t \in {EmptyText, BadText}}

InputHeatForms ==
    {[BaseHeatForm EXCEPT !.resolution = n] : n \in 0..MaxRes}
    \cup {[BaseHeatForm EXCEPT !.resolution = MaxRes, !.spot_min = Txt(90), !.vol_max = Txt(40)]}
    \cup {[BaseHeatForm EXCEPT !.spot_min = t] : t \in {Txt(0), Txt(-90), Txt(120), BadText}}
    \cup {[BaseHeatForm EXCEPT !.spot_max = t] : t \in {Txt(0), Txt(80), Txt(70)}}
    \cup {[BaseHeatForm EXCEPT !.vol_min = t] : t \in {Txt(0), Txt(-10), Txt(30)}}
    \cup {[BaseHeatForm EXCEPT !.vol_max = t] : t \in {Txt(0), Txt(10), Txt(5)}}
    \cup {[BaseHeatForm EXCEPT !.current_price = t] : t \in {Txt(0), EmptyText}}
    \cup {[BaseHeatForm EXCEPT !.strike = t] : t \in {Txt(0)}}
    \cup {[BaseHeatForm EXCEPT !.vol = Txt(1)],
          [BaseHeatForm EXCEPT !.vol = Txt(400), !.spot_min = Txt(90)]}

\* Bounds of SpecInputs on the rows and batches stored.
MaxInputCalcs == 1
MaxInputSweeps == 1

-----------------------------------------------------------------------------
(* The state machine.                                                      *)

Init ==
    /\ last_calc_id = None
    /\ connected = TRUE
    /\ next_calc_id = 1
    /\ option_pricing = << >>
    /\ heatmap_data = << >>
    /\ figure = Placeholder
    /\ returned_ids = {}
    /\ batches = 0
    /\ last = NoRun

SetStore(db) ==
    /\ option_pricing' = db.option_pricing
    /\ heatmap_data' = db.heatmap_data
    /\ next_calc_id' = db.next_calc_id
    /\ connected' = db.connected

\* BSApp.calculate_prices, the Calculate button, on entries drawn from forms.
\* A fault is drawn when the run reaches the store.
CalculateOn(forms, faults, maxId) ==
    \E form \in forms :
        \E fault \in IF calculate_option_prices(Store, form, "none").run.store_calls = 0
                     THEN {"none"} ELSE faults :
            LET r == calculate_option_prices(Store, form, fault)
            IN /\ r.db.next_calc_id <= maxId + 1
               /\ SetStore(r.db)
               /\ last_calc_id' = r.run.ret
               /\ returned_ids' = IF r.run.calc_id = None THEN returned_ids
                                  ELSE returned_ids \cup {r.run.calc_id}
               /\ last' = r.run
               /\ UNCHANGED <<figure, batches>>

\* BSApp.generate_heatmap, the Generate Heatmap button.
GenerateOn(forms, faults, maxSweeps) ==
    \E form \in forms :
        \E fault \in IF plot_heatmaps(Store, last_calc_id, form, figure, "none").run.store_calls = 0
                     THEN {"none"} ELSE faults :
            LET r == plot_heatmaps(Store, last_calc_id, form, figure, fault)
                nb == IF r.run.stored > 0 THEN batches + 1 ELSE batches
            IN /\ nb <= maxSweeps
               /\ SetStore(r.db)
               /\ figure' = r.figure
               /\ batches' = nb
               /\ last' = r.run
               /\ UNCHANGED <<last_calc_id, returned_ids>>

Calculate == CalculateOn(CalcForms, Faults, MaxCalcId)

GenerateHeatmap == GenerateOn(HeatForms, Faults, MaxSweeps)

\* BSApp.view_history: the History button.
ViewHistory ==
    \E fault \in Faults :
        LET r == open_history_window(Store, fault)
        IN /\ SetStore(r.db)
           /\ last' = r.run
           /\ UNCHANGED <<last_calc_id, figure, returned_ids, batches>>

\* The Load Selected button of a history window.  The tree of an open window
\* lists the calculations that existed when it was opened: the selection is
\* one of the calc_ids created so far, or no row.
HistoryLoad ==
    \E sel \in returned_ids \cup {None} :
        \E fault \in IF sel = None THEN {"none"} ELSE Faults :
            LET r == on_history_load(Store, sel, figure, fault)
            IN /\ SetStore(r.db)
               /\ figure' = r.figure
               /\ last' = r.run
               /\ UNCHANGED <<last_calc_id, returned_ids, batches>>

\* Another client of the database deletes a calculation.
DeleteCalculation ==
    \E c \in CalcIds(Store) :
        /\ SetStore(DeleteCascade(Store, c))
        /\ last' = [NoRun EXCEPT !.op = "delete", !.form = <<c>>]
        /\ UNCHANGED <<last_calc_id, figure, returned_ids, batches>>

Next ==
    \/ Calculate
    \/ GenerateHeatmap
    \/ ViewHistory
    \/ HistoryLoad
    \/ DeleteCalculation

Spec == Init /\ [][Next]_vars

InputsCalculate == CalculateOn(InputCalcForms, {"none"}, MaxInputCalcs)

InputsGenerate == GenerateOn(InputHeatForms, {"none"}, MaxInputSweeps)

NextInputs ==
    \/ InputsCalculate
    \/ InputsGenerate

SpecInputs == Init /\ [][NextInputs]_vars

\* SpecHistory: sweeps over different axes stored and loaded back, no faults
\* in the writes.
HistoryHeatForms ==
    {BaseHeatForm,
     [BaseHeatForm EXCEPT !.spot_min = Txt(90)],
     [BaseHeatForm EXCEPT !.vol_max = Txt(40)],
     [BaseHeatForm EXCEPT !.spot_min = Txt(90), !.vol_max = Txt(40)],
     [BaseHeatForm EXCEPT !.resolution = MaxRes]}

MaxHistoryCalcs == 2
MaxHistorySweeps == 2

HistoryCalculate == CalculateOn({BaseForm}, {"none"}, MaxHistoryCalcs)

HistoryGenerate == GenerateOn(HistoryHeatForms, {"none"}, MaxHistorySweeps)

NextHistory ==
    \/ HistoryCalculate
    \/ HistoryGenerate
    \/ ViewHistory
    \/ HistoryLoad

SpecHistory == Init /\ [][NextHistory]_vars

\* SpecEdits: the base entries edited between Calculate and Generate Heatmap.
EditHeatForms ==
    {BaseHeatForm}
    \cup {[BaseHeatForm EXCEPT !.strike = t] : t \in {Txt(0), Txt(-100), Txt(110)}}
    \cup {[BaseHeatForm EXCEPT !.ttm = t] : t \in {Txt(0), Txt(-100), Txt(200)}}
    \cup {[BaseHeatForm EXCEPT !.ttm = Txt(0), !.resolution = MaxRes]}
    \cup {[BaseHeatForm EXCEPT !.rate = Txt(0)]}

MaxEditCalcs == 1
MaxEditSweeps == 2

EditsCalculate == CalculateOn({BaseForm}, {"none"}, MaxEditCalcs)

EditsGenerate == GenerateOn(EditHeatForms, {"none"}, MaxEditSweeps)

NextEdits ==
    \/ EditsCalculate
    \/ EditsGenerate

SpecEdits == Init /\ [][NextEdits]_vars

\* SpecConnect: DBHandler.execute with the loop of DBHandler.connect unfolded.
\* The default of DBHandler.__init__, which BSApp does not override.
reconnect_attempts == 3

\* What one call of mysql.connector.connect(**self.config) can come to:
\*   "live"         a connection whose is_connected() is true;
\*   "dead"         a connection whose is_connected() is false;
\*   "error"        an Error other than an unknown database;
\*   "unknown_db"   Error 1049, and the temporary connection creates the database;
\*   "create_fails" Error 1049, and the creation of the database raises.
AttemptOutcomes == {"live", "dead", "error", "unknown_db", "create_fails"}

\* The for loop of connect from the given attempt on.  live is the state of
\* self.connection, which an attempt that raises leaves as it was.
RECURSIVE ConnectLoop(_, _, _, _)
ConnectLoop(live, outcomes, attempt, temps) ==
    IF attempt > reconnect_attempts
    THEN [returned |-> FALSE, live |-> live, attempts |-> attempt - 1, temp_connections |-> temps]
    ELSE LET o == outcomes[attempt]
         IN IF o = "live"
            THEN [returned |-> TRUE, live |-> TRUE, attempts |-> attempt,
                  temp_connections |-> temps]
            ELSE IF o = "dead"
            THEN ConnectLoop(FALSE, outcomes, attempt + 1, temps)
            ELSE IF o = "error"
            THEN ConnectLoop(live, outcomes, attempt + 1, temps)
            ELSE IF o = "unknown_db"
            THEN ConnectLoop(live, outcomes, attempt + 1, temps + 1)
            ELSE [returned |-> FALSE, live |-> live, attempts |-> attempt,
                  temp_connections |-> temps + 1]

\* Mutant: connect without the check after the loop.
connect_NoFinalCheck(live, outcomes) ==
    LET l == ConnectLoop(live, outcomes, 1, 0)
    IN [raised |-> FALSE, live |-> l.live, attempts |-> l.attempts,
        temp_connections |-> l.temp_connections]

\* DBHandler.connect: returns from the loop on the first live connection, and
\* raises after the loop unless self.connection is live.
connect(live, outcomes) ==
    LET l == ConnectLoop(live, outcomes, 1, 0)
    IN [raised |-> ~l.returned /\ ~l.live, live |-> l.live, attempts |-> l.attempts,
        temp_connections |-> l.temp_connections]

\* DBHandler.ensure_connection: connect() unless is_connected() is true.
ensure_connection(live, outcomes) ==
    IF ~live
    THEN connect(live, outcomes)
    ELSE [NoConnect EXCEPT !.live = TRUE]

\* DBHandler.execute with fetch = True.  The statement is sent on the
\* connection ensure_connection left; fault "statement" is an Error raised
\* while the statement runs.
execute(db, rows, outcomes, fault) ==
    LET e == ensure_connection(db.connected, outcomes)
    IN IF e.raised
       THEN [raised |-> TRUE, rows |-> << >>, sent |-> 0, connect |-> e,
             db |-> [db EXCEPT !.connected = FALSE]]
       ELSE LET q == ExecuteFetch(db, rows, fault)
            IN [raised |-> q.raised, rows |-> q.rows, sent |-> 1, connect |-> e, db |-> q.db]

\* The server or the network drops the connection while the application idles.
ConnectionLost ==
    /\ connected
    /\ connected' = FALSE
    /\ last' = [NoRun EXCEPT !.op = "lost"]
    /\ UNCHANGED <<last_calc_id, next_calc_id, option_pricing, heatmap_data, figure,
                   returned_ids, batches>>

\* The SELECT of the history window through DBHandler.execute.  The outcomes
\* of the connection attempts are drawn when the connection is not live.
ConnectExecute ==
    \E outcomes \in IF connected
                    THEN {[i \in 1..reconnect_attempts |-> "live"]}
                    ELSE [1..reconnect_attempts -> AttemptOutcomes] :
        \E fault \in {"none", "statement"} :
            LET x == execute(Store, option_pricing, outcomes, fault)
            IN /\ SetStore(x.db)
               /\ last' = [NoRun EXCEPT !.op = "execute", !.form = outcomes,
                                        !.store_calls = 1, !.sent = x.sent,
                                        !.outcome = IF x.raised THEN "error" ELSE "ok",
                                        !.connect = x.connect]
               /\ UNCHANGED <<last_calc_id, figure, returned_ids, batches>>

NextConnect ==
    \/ ConnectionLost
    \/ ConnectExecute

SpecConnect == Init /\ [][NextConnect]_vars

\* SpecDefaults: Generate Heatmap with the four range entries left empty, over
\* base volatilities from 0.005 to 12.00.
DefaultVols == {TxtMilli(5), Txt(1), Txt(20), Txt(400), Txt(999), Txt(1000), Txt(1200)}

DefaultCalcForms == {BaseForm, [BaseForm EXCEPT !.vol = Txt(1000)]}

DefaultHeatForms ==
    {[BaseHeatForm EXCEPT !.vol = t, !.resolution = n] : t \in DefaultVols, n \in {2, MaxRes}}
    \cup {[BaseHeatForm EXCEPT !.current_price = Txt(1)]}

MaxDefaultCalcs == 1
MaxDefaultSweeps == 1

DefaultsCalculate == CalculateOn(DefaultCalcForms, {"none"}, MaxDefaultCalcs)

DefaultsGenerate == GenerateOn(DefaultHeatForms, {"none"}, MaxDefaultSweeps)

NextDefaults ==
    \/ DefaultsCalculate
    \/ DefaultsGenerate

SpecDefaults == Init /\ [][NextDefaults]_vars

-----------------------------------------------------------------------------
(* Properties.                                                             *)

\* The rows a SELECT ... WHERE calc_id = c fetches.
SamplesOf(c) == SelectRows(heatmap_data, c)

\* The rows the batch of a sweep becomes under calc_id c.
BatchRows(c, records) ==
    [k \in 1..Len(records) |->
        [calc_id |-> c, spot |-> records[k].spot, volatility |-> records[k].volatility,
         call_price |-> records[k].call_price, put_price |-> records[k].put_price]]

Reverse(seq) == [k \in 1..Len(seq) |-> seq[Len(seq) + 1 - k]]

\* The run is a Generate Heatmap that got past the check of calc_id.
Generating == last.op = "generate" /\ last_calc_id # None

\* The resolution or the bounds the run read break a precondition of the sweep.
BadRanges(a) ==
    \/ a.n < 2
    \/ a.spot_min <= 0 \/ a.spot_max <= 0
    \/ a.vol_min <= 0 \/ a.vol_max <= 0
    \/ a.spot_max <= a.spot_min
    \/ a.vol_max <= a.vol_min

\* C1: a Calculate run whose spot, strike, time to maturity or volatility is
\* not positive ends with an error, with no row inserted, no pricing run and
\* nothing displayed.
C1_NonPositiveInputsRejected ==
    (/\ last.op = "calculate"
     /\ last.parsed
     /\ (last.args.spot <= 0 \/ last.args.strike <= 0
         \/ last.args.ttm <= 0 \/ last.args.vol <= 0))
    => (/\ last.outcome = "error"
        /\ last.stored = 0
        /\ last.runs = 0
        /\ ~last.displayed)

\* C2: a Calculate run whose insert_input_record met a storage failure ends
\* with an error: no pricing run, no prices displayed, no identifier returned.
C2_CreateFailurePropagated ==
    (last.op = "calculate" /\ last.db_error)
    => (/\ last.outcome = "error"
        /\ last.runs = 0
        /\ ~last.displayed
        /\ last.ret = None)

\* C3: a Generate Heatmap run reports "generated and saved to database
\* successfully" only if every sample of its sweep was stored.
C3_SavedOnlyIfStored ==
    (last.op = "generate" /\ last.outcome = "ok")
    => (/\ ~last.db_error
        /\ last.stored = Len(last.surface.save_records))

\* C4: a Generate Heatmap run that calls insert_heatmap_records leaves
\* heatmap_data either unchanged or extended by the whole batch under the
\* run's calc_id: no step stores part of a batch.
C4_BatchAtomic ==
    [][(last'.op = "generate" /\ last'.store_calls = 1)
       => \/ heatmap_data' = heatmap_data
          \/ heatmap_data' = heatmap_data \o BatchRows(last_calc_id, last'.surface.save_records)]_vars

\* C4 witness: a batch of more than one sample whose insert failed, and none
\* of it is stored.
C4_Witness ==
    /\ last.op = "generate"
    /\ last.store_calls = 1
    /\ last.db_error
    /\ Len(last.surface.save_records) > 1
    /\ last.stored = 0
    /\ last_calc_id \in CalcIds(Store)

\* C5: a Generate Heatmap run that appends samples under a calc_id absent
\* from option_pricing fails with a storage error, creates no calculation and
\* leaves no sample stored under that calc_id.
C5_MissingCalcIdFails ==
    [][(/\ last'.op = "generate"
        /\ last'.store_calls = 1
        /\ last_calc_id \notin CalcIds(Store))
       => (/\ last'.outcome = "error"
           /\ option_pricing' = option_pricing
           /\ SelectRows(heatmap_data', last_calc_id) = << >>)]_vars

\* C6: a Generate Heatmap run whose resolution is below 2, or whose bounds
\* are not positive or not in order, raises its error before any pricing run
\* and before any call of the store, and stores nothing.
C6_PreconditionFailureAtomic ==
    (/\ Generating
     /\ last.parsed \/ last.args.n < 2
     /\ BadRanges(last.args))
    => (/\ last.outcome = "error"
        /\ last.runs = 0
        /\ last.store_calls = 0
        /\ last.stored = 0
        /\ last.surface = NoSurface)

\* C6 witness: each kind of precondition failure has been raised.
C6_Witness ==
    /\ Generating
    /\ last.parsed
    /\ last.args.n >= 2
    /\ last.args.spot_min > 0
    /\ last.args.spot_max <= last.args.spot_min
    /\ last.args.spot_max > 0
    /\ last.outcome = "error"
    /\ heatmap_data # << >>

\* An axis of n points from lo to hi: axis[i] = lo + i * (hi - lo) / (n - 1),
\* strictly increasing.
UniformAxis(axis, lo, hi, n) ==
    /\ Len(axis) = n
    /\ axis[1] = lo
    /\ axis[n] = hi
    /\ \A i \in 0..(n - 1) : axis[i + 1] * (n - 1) = lo * (n - 1) + i * (hi - lo)
    /\ \A i \in 1..(n - 1) : axis[i] < axis[i + 1]

IsMatrix(m, n) == Len(m) = n /\ \A i \in 1..n : Len(m[i]) = n

\* C7: with a resolution n >= 2 and valid ranges the sweep has two n x n
\* matrices and two axes of n points, uniform and strictly increasing from
\* the minimum to the maximum; with a resolution of 1 the run ends in an error.
C7_GridShape ==
    Generating
    => /\ (last.parsed /\ ~BadRanges(last.args))
          => LET n == last.args.n
                 sf == last.surface
             IN /\ UniformAxis(sf.spot_range, last.args.spot_min, last.args.spot_max, n)
                /\ UniformAxis(sf.vol_range, last.args.vol_min, last.args.vol_max, n)
                /\ IsMatrix(sf.call_prices, n)
                /\ IsMatrix(sf.put_prices, n)
       /\ last.args.n = 1 => (last.outcome = "error" /\ last.surface = NoSurface)

\* C7 witness: a sweep at the boundary resolution 2 has run and was stored.
C7_Witness ==
    /\ Generating
    /\ last.outcome = "ok"
    /\ last.args.n = 2
    /\ Len(last.surface.spot_range) = 2
    /\ last.stored = 4

\* C8: after a successful sweep of resolution n the list of records has n * n
\* entries, entry i * n + j being (spot_range[j], vol_range[i], call[i][j],
\* put[i][j]) with the prices of that spot and volatility, and it is the list
\* handed to the store under the run's calc_id.
C8_RowMajorRecords ==
    (Generating /\ last.outcome = "ok")
    => LET n == last.args.n
           sf == last.surface
       IN /\ Len(sf.save_records) = n * n
          /\ \A i \in 0..(n - 1) : \A j \in 0..(n - 1) :
                LET rec == sf.save_records[i * n + j + 1]
                    bs == BSRun(last.args.ttm, last.args.strike,
                                sf.spot_range[j + 1], sf.vol_range[i + 1], last.args.rate)
                IN /\ rec.spot = sf.spot_range[j + 1]
                   /\ rec.volatility = sf.vol_range[i + 1]
                   /\ rec.call_price = sf.call_prices[i + 1][j + 1]
                   /\ rec.put_price = sf.put_prices[i + 1][j + 1]
                   /\ rec.call_price = bs.call_price
                   /\ rec.put_price = bs.put_price
                   /\ rec.call_price # Zero
          /\ last.stored > 0
             => SubSeq(heatmap_data, Len(heatmap_data) - n * n + 1, Len(heatmap_data))
                = BatchRows(last_calc_id, sf.save_records)

\* C8 witness: a stored sweep of the largest resolution on a grid whose two
\* axes differ.
C8_Witness ==
    /\ Generating
    /\ last.outcome = "ok"
    /\ last.args.n = MaxRes
    /\ last.stored = MaxRes * MaxRes
    /\ last.surface.spot_range # last.surface.vol_range

\* C9: after a sweep is stored under a calc_id, the reconstruction from the
\* rows stored for that calc_id, in the stored order or another, has the
\* sweep's axes and matrices.
C9_RoundTrip ==
    (Generating /\ last.outcome = "ok" /\ last.stored > 0)
    => \A rows \in {SamplesOf(last_calc_id), Reverse(SamplesOf(last_calc_id))} :
          LET rec == Reconstruct(rows)
          IN /\ rec.spots = last.surface.spot_range
             /\ rec.vols = last.surface.vol_range
             /\ rec.call_prices = last.surface.call_prices
             /\ rec.put_prices = last.surface.put_prices

\* C10: an identifier returned by insert_input_record was never returned
\* before, and no Calculate, Generate Heatmap or History run changes or
\* removes a row of option_pricing.
C10_FreshAndImmutable ==
    [][/\ (last'.op = "calculate" /\ last'.calc_id # None)
          => last'.calc_id \notin returned_ids
       /\ last'.op \in {"calculate", "generate", "history_open", "history_load"}
          => /\ Len(option_pricing') >= Len(option_pricing)
             /\ \A k \in 1..Len(option_pricing) : option_pricing'[k] = option_pricing[k]]_vars

\* C10 witness: a second identifier returned after the first calculation was
\* deleted.
C10_Witness ==
    /\ last.op = "calculate"
    /\ last.calc_id # None
    /\ Cardinality(returned_ids) = 2
    /\ Len(option_pricing) = 1

\* C11: one call of a write operation hands its statement to the store at
\* most once, also after a reconnect: a Calculate step adds at most one row
\* to option_pricing and uses at most one calc_id, a Generate Heatmap step
\* adds at most one batch to heatmap_data and no calculation.
C11_NoWriteRetry ==
    [][/\ last'.op \in {"calculate", "generate"} => last'.sent <= 1
       /\ last'.op = "calculate"
          => /\ Len(option_pricing') <= Len(option_pricing) + 1
             /\ next_calc_id' <= next_calc_id + 1
             /\ heatmap_data' = heatmap_data
       /\ last'.op = "generate"
          => /\ Len(heatmap_data') <= Len(heatmap_data) + Len(last'.surface.save_records)
             /\ option_pricing' = option_pricing
             /\ next_calc_id' = next_calc_id]_vars

\* C11 witness: a Calculate whose write had to reconnect first, after an
\* earlier write lost its commit, and that stored its one row.
C11_Witness ==
    /\ last.op = "calculate"
    /\ last.reconnected
    /\ last.sent = 1
    /\ last.stored = 1
    /\ last.calc_id = 2
    /\ returned_ids = {2}

\* C12: in every state each row of heatmap_data carries the calc_id of a row
\* of option_pricing, and a step that deletes a calculation removes every
\* sample with its calc_id and no other sample.
C12_SamplesOwned ==
    /\ [](\A k \in 1..Len(heatmap_data) : heatmap_data[k].calc_id \in CalcIds(Store))
    /\ [][last'.op = "delete"
          => LET c == last'.form[1]
             IN /\ c \notin {option_pricing'[k].calc_id : k \in 1..Len(option_pricing')}
                /\ SelectRows(heatmap_data', c) = << >>
                /\ heatmap_data' = RemoveRows(heatmap_data, c)]_vars

\* C12 witness: two calculations had a sweep each, one of them was deleted
\* and the samples of the other are what the store holds.
C12_Witness ==
    /\ last.op = "delete"
    /\ returned_ids = {1, 2}
    /\ batches = 2
    /\ Len(option_pricing) = 1
    /\ heatmap_data # << >>
    /\ Len(SamplesOf(option_pricing[1].calc_id)) = Len(heatmap_data)
    /\ Len(heatmap_data) = 4

\* The values of a sequence are ascending and pairwise distinct.
Ascending(axis) == \A k \in 1..(Len(axis) - 1) : axis[k] < axis[k + 1]

Values(axis) == {axis[k] : k \in 1..Len(axis)}

\* C13: a history load of any non-empty set of stored samples succeeds with
\* axes that are the ascending distinct spots and volatilities of the samples
\* and matrices of len(vols) rows and len(spots) columns, where a cell with a
\* sample at its volatility and spot holds the prices of such a sample and a
\* cell with none holds NaN, never zero.
C13_SparseReconstruction ==
    (last.op = "history_load" /\ last.store_calls = 1 /\ connected
     /\ SamplesOf(last.form[1]) # << >>)
    => LET rows == SamplesOf(last.form[1])
           at(i, j) == {k \in 1..Len(rows) : /\ rows[k].volatility = figure.vols[i]
                                              /\ rows[k].spot = figure.spots[j]}
       IN /\ last.outcome = "ok"
          /\ figure.kind = "loaded"
          /\ Ascending(figure.spots)
          /\ Ascending(figure.vols)
          /\ Values(figure.spots) = {rows[k].spot : k \in 1..Len(rows)}
          /\ Values(figure.vols) = {rows[k].volatility : k \in 1..Len(rows)}
          /\ Len(figure.call_prices) = Len(figure.vols)
          /\ Len(figure.put_prices) = Len(figure.vols)
          /\ \A i \in 1..Len(figure.vols) :
                /\ Len(figure.call_prices[i]) = Len(figure.spots)
                /\ Len(figure.put_prices[i]) = Len(figure.spots)
                /\ \A j \in 1..Len(figure.spots) :
                      IF at(i, j) = {}
                      THEN figure.call_prices[i][j] = NaN /\ figure.put_prices[i][j] = NaN
                      ELSE \E k \in at(i, j) :
                              /\ figure.call_prices[i][j] = rows[k].call_price
                              /\ figure.put_prices[i][j] = rows[k].put_price

\* C13 witness: a load of the samples of two sweeps that differ in both axes:
\* the grid has cells with a sample and cells without one.
C13_Witness ==
    /\ last.op = "history_load"
    /\ last.outcome = "ok"
    /\ Len(figure.spots) = 3
    /\ Len(figure.vols) = 3
    /\ \E i \in 1..3 : \E j \in 1..3 : figure.call_prices[i][j] = NaN
    /\ \E i \in 1..3 : \E j \in 1..3 : figure.call_prices[i][j] # NaN

\* C14: a history load whose SELECT returns no sample for the selected calc_id
\* ends with the "No data" dialog, builds nothing and leaves the figure and
\* the store as they were.
C14_EmptyLoadRefused ==
    [][(/\ last'.op = "history_load"
        /\ last'.store_calls = 1
        /\ connected'
        /\ SelectRows(heatmap_data, last'.form[1]) = << >>)
       => (/\ last'.outcome = "info"
           /\ last'.error = "No data"
           /\ figure' = figure
           /\ heatmap_data' = heatmap_data
           /\ option_pricing' = option_pricing)]_vars

\* C14 witness: a calculation without samples was selected while the figure
\* showed a generated surface, and the figure still shows it.
C14_Witness ==
    /\ last.op = "history_load"
    /\ last.error = "No data"
    /\ last.form[1] \in CalcIds(Store)
    /\ figure.kind = "generated"
    /\ heatmap_data # << >>

\* The bound a Generate Heatmap run used is the text typed for it.
Supplied(text, bound) == Len(text) = 1 /\ bound = ToFloat(text[1])

\* C15: a Generate Heatmap run uses, for a bound left empty, 0.8 * spot,
\* 1.2 * spot, max(0.01, 0.5 * volatility) and min(5.0, 1.5 * volatility) of
\* the base inputs, and for a bound that was typed the value typed.
C15_DefaultRanges ==
    (Generating /\ last.parsed)
    => LET a == last.args
           f == last.form
       IN /\ IF f.spot_min = EmptyText THEN a.spot_min * 10 = 8 * a.spot
             ELSE Supplied(f.spot_min, a.spot_min)
          /\ IF f.spot_max = EmptyText THEN a.spot_max * 10 = 12 * a.spot
             ELSE Supplied(f.spot_max, a.spot_max)
          /\ IF f.vol_min = EmptyText
             THEN IF 5 * a.vol >= 10 * ToFloat(1) THEN a.vol_min * 10 = 5 * a.vol
                  ELSE a.vol_min = ToFloat(1)
             ELSE Supplied(f.vol_min, a.vol_min)
          /\ IF f.vol_max = EmptyText
             THEN IF 15 * a.vol <= 10 * ToFloat(500) THEN a.vol_max * 10 = 15 * a.vol
                  ELSE a.vol_max = ToFloat(500)
             ELSE Supplied(f.vol_max, a.vol_max)

\* C15 witness: a sweep with Min Spot typed and the other bounds empty, on a
\* base volatility whose 1.5-fold exceeds 5.0.
C15_Witness ==
    /\ Generating
    /\ last.outcome = "ok"
    /\ last.form.spot_min # EmptyText
    /\ last.form.spot_max = EmptyText
    /\ last.form.vol_min = EmptyText
    /\ last.form.vol_max = EmptyText
    /\ last.args.spot_min * 10 # 8 * last.args.spot
    /\ last.args.vol_max = ToFloat(500)
    /\ 15 * last.args.vol > 10 * ToFloat(500)

\* C16: after every pricing run of Calculate put_delta is call_delta - 1,
\* call_delta is a number of [0, 1], put_delta a number of [-1, 0], and the
\* gamma of the call is the gamma of the put.
C16_GreeksRelation ==
    (last.op = "calculate" /\ last.runs = 1 /\ last.outcome = "ok")
    => /\ last.put_delta = MinusOne(last.call_delta)
       /\ last.call_delta # NaN /\ last.call_delta.f = "cdf_d1"
       /\ last.put_delta # NaN /\ last.put_delta.f = "cdf_d1_minus_1"
       /\ last.call_gamma = last.put_gamma

\* The price was computed with the strike, maturity and rate of the row.
PricedWith(price, row) ==
    /\ price.K = row.strike_price
    /\ price.T = row.time_to_maturity
    /\ price.r = row.risk_free_interest_rate

\* C18: every row of heatmap_data holds prices computed with the strike, the
\* time to maturity and the rate of the option_pricing row of its calc_id.
C18_SamplesUseStoredInputs ==
    \A k \in 1..Len(heatmap_data) : \A m \in 1..Len(option_pricing) :
        option_pricing[m].calc_id = heatmap_data[k].calc_id
        => /\ PricedWith(heatmap_data[k].call_price, option_pricing[m])
           /\ PricedWith(heatmap_data[k].put_price, option_pricing[m])

\* C19: the samples stored for a calc_id have pairwise distinct (spot,
\* volatility) pairs, and every spot among them occurs with every volatility
\* among them: one sample per cell of one rectangular grid.
C19_OneSweepPerCalculation ==
    \A c \in CalcIds(Store) :
        LET rows == SamplesOf(c)
        IN /\ \A k, m \in 1..Len(rows) :
                 (rows[k].spot = rows[m].spot /\ rows[k].volatility = rows[m].volatility)
                 => k = m
           /\ \A k, m \in 1..Len(rows) : \E x \in 1..Len(rows) :
                 rows[x].spot = rows[k].spot /\ rows[x].volatility = rows[m].volatility

\* C20: a Generate Heatmap run that read a strike or a time to maturity that
\* is not positive ends with an error before any pricing run and any call of
\* the store, and no run places a NaN price in a matrix or hands one to the
\* store.
C20_BaseInputsRevalidated ==
    Generating
    => /\ (last.parsed /\ (last.args.strike <= 0 \/ last.args.ttm <= 0))
          => /\ last.outcome = "error"
             /\ last.runs = 0
             /\ last.store_calls = 0
       /\ \A i \in 1..Len(last.surface.call_prices) :
             \A j \in 1..Len(last.surface.call_prices[i]) :
                /\ last.surface.call_prices[i][j] # NaN
                /\ last.surface.put_prices[i][j] # NaN
       /\ \A k \in 1..Len(last.surface.save_records) :
             /\ last.surface.save_records[k].call_price # NaN
             /\ last.surface.save_records[k].put_price # NaN

\* C21: a Calculate run that ends in an error leaves BSApp.last_calc_id as it
\* was before the run.
C21_ErrorKeepsLastCalcId ==
    [][(last'.op = "calculate" /\ last'.outcome = "error")
       => last_calc_id' = last_calc_id]_vars

\* C22: a Generate Heatmap run started while last_calc_id is None makes no
\* pricing run and no call of the store and leaves the figure and the tables
\* as they were; a run that adds rows to heatmap_data adds its batch under
\* the last_calc_id it started with; and every stored row carries a calc_id
\* that insert_input_record returned.
C22_NoSampleWithoutCalcId ==
    /\ [](\A k \in 1..Len(heatmap_data) : heatmap_data[k].calc_id \in returned_ids)
    /\ [][last'.op = "generate"
          => /\ last_calc_id = None
                => /\ last'.outcome = "warning"
                   /\ last'.runs = 0
                   /\ last'.store_calls = 0
                   /\ figure' = figure
                   /\ heatmap_data' = heatmap_data
                   /\ option_pricing' = option_pricing
             /\ heatmap_data' # heatmap_data
                => /\ last_calc_id # None
                   /\ heatmap_data' = heatmap_data
                                      \o BatchRows(last_calc_id, last'.surface.save_records)]_vars

\* C22 witness: Generate Heatmap pressed after a failed Calculate reset
\* last_calc_id to None, with a generated surface on the figure and samples in
\* the store.
C22_Witness ==
    /\ last.op = "generate"
    /\ last.outcome = "warning"
    /\ last_calc_id = None
    /\ figure.kind = "generated"
    /\ heatmap_data # << >>

\* A Generate Heatmap run that read its entries with the four range entries
\* left empty and a resolution of at least 2.
GeneratingOnDefaults ==
    /\ Generating
    /\ last.parsed
    /\ last.args.n >= 2
    /\ last.form.spot_min = EmptyText /\ last.form.spot_max = EmptyText
    /\ last.form.vol_min = EmptyText /\ last.form.vol_max = EmptyText

\* The run passed the checks of the ranges.
PassedRangeChecks ==
    /\ ~BadRanges(last.args)
    /\ last.error \notin {"Spot ranges must be > 0", "Max Spot must be greater than Min Spot",
                          "Vol ranges must be > 0", "Max Vol must be greater than Min Vol"}

\* C23: with a base spot > 0 and a base volatility > 0, a Generate Heatmap run
\* with the four range entries left empty passes the checks of the ranges.
C23_DefaultsAlwaysValid ==
    (GeneratingOnDefaults /\ last.args.spot > 0 /\ last.args.vol > 0)
    => PassedRangeChecks

\* C23 as amended: the same for a base volatility with 1.5 * volatility > 0.01
\* and 0.5 * volatility < 5.0.
C23_DefaultsValidInBand ==
    (/\ GeneratingOnDefaults
     /\ last.args.spot > 0
     /\ 15 * last.args.vol > 10 * ToFloat(1)
     /\ 5 * last.args.vol < 10 * ToFloat(500))
    => PassedRangeChecks

\* C23 witness: a sweep on the defaults of the base volatility 9.99, where
\* the upper clamp is active and the range is still in order.
C23_Witness ==
    /\ GeneratingOnDefaults
    /\ last.outcome = "ok"
    /\ last.form.vol = Txt(999)
    /\ last.args.vol_max = ToFloat(500)
    /\ last.args.vol_min < last.args.vol_max

\* C24: a run of the history window or of its Load button inserts, updates
\* and deletes no row of option_pricing or heatmap_data and leaves
\* last_calc_id as it was, whether the run succeeds or fails.
C24_HistoryReadOnly ==
    [][last'.op \in {"history_open", "history_load"}
       => /\ option_pricing' = option_pricing
          /\ heatmap_data' = heatmap_data
          /\ next_calc_id' = next_calc_id
          /\ last_calc_id' = last_calc_id]_vars

\* C24 witness: a history item other than the current calculation is loaded
\* and drawn, with rows in both tables and last_calc_id still set.
C24_Witness ==
    /\ last.op = "history_load" /\ last.outcome = "ok"
    /\ figure.kind = "loaded"
    /\ last_calc_id # None /\ figure.calc_id # last_calc_id
    /\ option_pricing # << >> /\ heatmap_data # << >>

\* C25: a call of connect makes at most reconnect_attempts attempts, goes past
\* no attempt that gave a live connection, and ends with a live connection or
\* with an error raised; execute sends a statement only on a connection that
\* ensure_connection left live.
C25_ConnectBoundedAndLive ==
    last.op = "execute"
    => LET c == last.connect
           o == last.form
       IN /\ c.attempts <= reconnect_attempts
          /\ \A i \in 1..(c.attempts - 1) : o[i] # "live"
          /\ (c.attempts >= 1 /\ o[c.attempts] = "live") => (~c.raised /\ c.live)
          /\ c.raised \/ c.live
          /\ last.sent > 0 => (c.live /\ ~c.raised)

\* C25 witness: after a lost connection, execute reconnects on the last of
\* the attempts, the first one that gives a live connection, and sends its
\* statement.
C25_Witness ==
    /\ last.op = "execute" /\ last.outcome = "ok" /\ last.sent = 1
    /\ last.connect.attempts = reconnect_attempts
    /\ last.form[1] = "error" /\ last.form[2] = "dead"
    /\ last.form[reconnect_attempts] = "live"
    /\ last.connect.live /\ connected

====
